---- MODULE Spec2Model ----
(***************************************************************************)
(* btrfs-lightning-search/btrfs-indexer2.c as a state machine: one run of  *)
(* main over a directory tree.  The environment (the option stream getopt  *)
(* returns, the tree, which directories opendir refuses, which entries     *)
(* lstat refuses, whether plain char is signed) is chosen in Init; malloc  *)
(* failures, the probe's outcome and readdir's order are chosen at the     *)
(* step where the code meets them.                                         *)
(*                                                                         *)
(* Strings are sequences of bytes (0..255).  The root path is an opaque    *)
(* string of rootLen plain bytes; every path the crawler builds is that    *)
(* root followed by a suffix, and only the suffix is stored.               *)
(***************************************************************************)
EXTENDS Integers, Sequences, FiniteSets, TLC

VARIABLES
    opts,        \* what getopt has yet to return, in order
    rest,        \* argv from optind on, once getopt returned -1
    fs,          \* the tree: [nodes, noopen, nostat]
    rootLen,     \* strlen of the root path
    charSigned,  \* the build: is plain char signed?
    pc,          \* main's position
    format,      \* main's format
    file_list,   \* the linked list, head first
    file_count,  \* the counter
    stack,       \* crawl_filesystem's activations, innermost last
    out,         \* what was written to stdout
    err,         \* what was written to stderr
    exitCode,    \* main's return value, -1 while running
    allocFails,  \* history: mallocs that returned NULL
    disc         \* history: the entries lstat accepted, in discovery order

vars == <<opts, rest, fs, rootLen, charSigned, pc, format, file_list,
          file_count, stack, out, err, exitCode, allocFails, disc>>

----------------------------------------------------------------------------
(* Sizes the source fixes. *)

PATH_SIZE == 4096
NAME_SIZE == 256
ESC_PATH_SIZE == 8192
ESC_NAME_SIZE == 512
PROGRESS_EVERY == 1000

(* Bounds of the model. *)

MaxOpts == 2
MaxAllocFail == 1
MaxFail == 1
MaxDepth == 5
MaxRootLen == 1
MaxSlack == 5

----------------------------------------------------------------------------
(* Generic helpers. *)

Take(s, n) == IF Len(s) <= n THEN s ELSE SubSeq(s, 1, IF n < 0 THEN 0 ELSE n)

Reverse(s) == [i \in 1..Len(s) |-> s[Len(s) + 1 - i]]

IsPrefix(p, s) == Len(p) <= Len(s) /\ SubSeq(s, 1, Len(p)) = p

Top(stk) == stk[Len(stk)]

Pop(stk) == SubSeq(stk, 1, Len(stk) - 1)

SLASH == <<47>>
DOT == <<46>>
DOTDOT == <<46, 46>>

----------------------------------------------------------------------------
(* The directory tree.  Node 0 is the root directory; node i is           *)
(* fs.nodes[i].                                                            *)

Node(parent, name, kind, target, ino, size, mtime) ==
    [parent |-> parent, name |-> name, kind |-> kind, target |-> target,
     ino |-> ino, size |-> size, mtime |-> mtime]

\* root: a.txt (2 bytes), d/ ; d: b.txt (0 bytes)
TreeDemo ==
    << Node(0, <<97, 46, 116, 120, 116>>, "reg", 0, 11, 2, 86399),
       Node(0, <<100>>, "dir", 0, 12, 4096, 86400),
       Node(2, <<98, 46, 116, 120, 116>>, "reg", 0, 13, 0, 951782400) >>

\* root: x/ , g ; x: y/ ; y: f
TreeDeep ==
    << Node(0, <<120>>, "dir", 0, 21, 4096, 0),
       Node(1, <<121>>, "dir", 0, 22, 4096, 59),
       Node(2, <<102>>, "reg", 0, 23, 7, 60),
       Node(0, <<103>>, "reg", 0, 24, 9, 1709251199) >>

\* root: d/ , l -> d , h (hard link of d/f) ; d: f , up -> root
TreeLinks ==
    << Node(0, <<100>>, "dir", 0, 31, 4096, 100),
       Node(1, <<102>>, "reg", 0, 32, 5, 200),
       Node(0, <<108>>, "lnk", 1, 33, 1, 300),
       Node(1, <<117, 112>>, "lnk", 0, 34, 2, 400),
       Node(0, <<104>>, "reg", 0, 32, 5, 200) >>

TreeEmpty == << >>

\* root: files named  "\<newline> ,  <0xC3><0xA9> (e acute in UTF-8)  and
\* <0x01><tab><cr>A
TreeNames ==
    << Node(0, <<34, 92, 10>>, "reg", 0, 41, 1, 1),
       Node(0, <<195, 169>>, "reg", 0, 42, 1, 2),
       Node(0, <<1, 9, 13, 65>>, "reg", 0, 43, 1, 3) >>

\* root: ab/ , a ; ab: c
TreeTrunc ==
    << Node(0, <<97, 98>>, "dir", 0, 51, 4096, 10),
       Node(1, <<99>>, "reg", 0, 52, 3, 20),
       Node(0, <<97>>, "reg", 0, 53, 4, 30) >>

Trees == {TreeDemo, TreeDeep, TreeLinks, TreeEmpty, TreeNames, TreeTrunc}

Ids(nodes) == 1..Len(nodes)

KindOf(nodes, n) == IF n = 0 THEN "dir" ELSE nodes[n].kind

DirIds(nodes) == {0} \cup {n \in Ids(nodes) : nodes[n].kind = "dir"}

Children(nodes, d) == {n \in Ids(nodes) : nodes[n].parent = d}

\* the node a directory entry names, -1 when there is none
Child(nodes, d, name) ==
    IF name = DOT THEN d
    ELSE IF name = DOTDOT THEN (IF d = 0 THEN 0 ELSE nodes[d].parent)
    ELSE IF \E n \in Children(nodes, d) : nodes[n].name = name
         THEN CHOOSE n \in Children(nodes, d) : nodes[n].name = name
         ELSE -1

\* a symbolic link resolved; the trees link only to directories
Deref(nodes, n) == IF n > 0 /\ nodes[n].kind = "lnk" THEN nodes[n].target ELSE n

\* the path suffix the crawler builds for node n when nothing is truncated
RECURSIVE PathOf(_, _)
PathOf(nodes, n) ==
    IF n = 0 THEN << >>
    ELSE PathOf(nodes, nodes[n].parent) \o SLASH \o nodes[n].name

RECURSIVE DepthOf(_, _)
DepthOf(nodes, n) == IF n = 0 THEN 0 ELSE 1 + DepthOf(nodes, nodes[n].parent)

----------------------------------------------------------------------------
(* Path resolution, as the kernel does it for opendir and lstat. *)

RECURSIVE Split(_, _, _)
Split(s, cur, acc) ==
    IF s = << >> THEN (IF cur = << >> THEN acc ELSE Append(acc, cur))
    ELSE IF Head(s) = 47
         THEN Split(Tail(s), << >>, IF cur = << >> THEN acc ELSE Append(acc, cur))
         ELSE Split(Tail(s), Append(cur, Head(s)), acc)

RECURSIVE Walk(_, _, _, _, _)
Walk(nodes, cur, comps, trailing, follow) ==
    IF comps = << >> THEN cur
    ELSE IF KindOf(nodes, cur) # "dir" THEN -1
    ELSE LET c == Child(nodes, cur, Head(comps)) IN
         IF c = -1 THEN -1
         ELSE IF Len(comps) > 1
              THEN Walk(nodes, Deref(nodes, c), Tail(comps), trailing, follow)
              ELSE IF trailing
                   THEN (IF KindOf(nodes, Deref(nodes, c)) = "dir"
                         THEN Deref(nodes, c) ELSE -1)
                   ELSE IF follow THEN Deref(nodes, c) ELSE c

Resolve(nodes, suf, follow) ==
    Walk(nodes, 0, Split(suf, << >>, << >>),
         suf # << >> /\ suf[Len(suf)] = 47, follow)

\* lstat(full_path, &st): the node the path names, the link itself when it
\* names a link; -1 when it names nothing
Lstat(nodes, suf) == Resolve(nodes, suf, FALSE)

\* opendir(path): the directory the path names, -1 when it is none
Opendir(nodes, suf) ==
    LET n == Resolve(nodes, suf, TRUE) IN
    IF n # -1 /\ KindOf(nodes, n) = "dir" THEN n ELSE -1

ModeOf(nodes, n) ==
    CASE KindOf(nodes, n) = "dir" -> 16877
      [] KindOf(nodes, n) = "reg" -> 33188
      [] KindOf(nodes, n) = "lnk" -> 41471

\* struct stat of node n, as lstat fills it
StatOf(nodes, n) ==
    IF n = 0
    THEN [st_ino |-> 1, st_size |-> 4096, st_mtime |-> 5, st_mode |-> 16877]
    ELSE [st_ino |-> nodes[n].ino, st_size |-> nodes[n].size,
          st_mtime |-> nodes[n].mtime, st_mode |-> ModeOf(nodes, n)]

S_ISDIR(mode) == (mode \div 4096) % 16 = 4

----------------------------------------------------------------------------
(* The record store. *)

\* entry->next = file_list; file_list = entry;  with the entry added at the
\* tail instead
LinkAtTail(entry, list) == list \o <<entry>>

\* entry->next = file_list; file_list = entry;
Link(entry, list) == <<entry>> \o list

\* add_file_entry with the counter bumped before the allocation is tested
add_file_entry_counting_first(list, count, ok, rl, path, name, inode, size, mtime, mode) ==
    IF ~ok THEN [list |-> list, count |-> count + 1]
    ELSE [list |-> Link([path |-> Take(path, PATH_SIZE - 1 - rl),
                         name |-> Take(name, NAME_SIZE - 1),
                         inode |-> inode, size |-> size, mtime |-> mtime,
                         mode |-> mode], list),
          count |-> count + 1]

\* add_file_entry: ok is malloc's outcome, rl the length of the root prefix
\* of path
add_file_entry(list, count, ok, rl, path, name, inode, size, mtime, mode) ==
    IF ~ok THEN [list |-> list, count |-> count]
    ELSE [list |-> Link([path |-> Take(path, PATH_SIZE - 1 - rl),
                         name |-> Take(name, NAME_SIZE - 1),
                         inode |-> inode, size |-> size, mtime |-> mtime,
                         mode |-> mode], list),
          count |-> count + 1]

\* snprintf(full_path, sizeof(full_path), "%s/%s", path, d_name)
JoinPath(path, name, rl) == Take(path \o SLASH \o name, PATH_SIZE - 1 - rl)

----------------------------------------------------------------------------
(* timestamp_to_iso: gmtime and strftime "%Y-%m-%dT%H:%M:%SZ", as the     *)
(* six numbers the text shows.                                             *)

IsLeap(y) == (y % 4 = 0 /\ y % 100 # 0) \/ y % 400 = 0

DaysInYear(y) == IF IsLeap(y) THEN 366 ELSE 365

DaysInMonth(y, m) ==
    IF m = 2 THEN (IF IsLeap(y) THEN 29 ELSE 28)
    ELSE IF m \in {4, 6, 9, 11} THEN 30 ELSE 31

RECURSIVE YearFrom(_, _)
YearFrom(y, d) ==
    IF d >= DaysInYear(y) THEN YearFrom(y + 1, d - DaysInYear(y)) ELSE <<y, d>>

RECURSIVE MonthFrom(_, _, _)
MonthFrom(y, m, d) ==
    IF d >= DaysInMonth(y, m) THEN MonthFrom(y, m + 1, d - DaysInMonth(y, m))
    ELSE <<m, d>>

timestamp_to_iso(t) ==
    LET yd == YearFrom(1970, t \div 86400)
        md == MonthFrom(yd[1], 1, yd[2])
        s == t % 86400
    IN <<yd[1], md[1], md[2] + 1, s \div 3600, (s % 3600) \div 60, s % 60>>

----------------------------------------------------------------------------
(* json_escape. *)

\* src[i] as the switch and the comparison see it
CharVal(b, signed) == IF signed /\ b >= 128 THEN b - 256 ELSE b

\* the loop of json_escape from index i on; n0 bytes of dst are taken by
\* what came before src (the root prefix, plain bytes), dst is what src
\* added so far
RECURSIVE EscLoop(_, _, _, _, _, _)
EscLoop(src, i, dst, n0, dst_size, signed) ==
    LET dst_idx == n0 + Len(dst)
        c == CharVal(src[i], signed)
        two(x) == IF dst_idx < dst_size - 3 THEN dst \o <<92, x>> ELSE dst
    IN IF ~(i <= Len(src) /\ dst_idx < dst_size - 2) THEN dst
       ELSE EscLoop(src, i + 1,
                    CASE c = 34 -> two(34)
                      [] c = 92 -> two(92)
                      [] c = 10 -> two(110)
                      [] c = 13 -> two(114)
                      [] c = 9 -> two(116)
                      [] OTHER -> IF c >= 32 THEN Append(dst, src[i]) ELSE dst,
                    n0, dst_size, signed)

json_escape(src, n0, dst_size, signed) == EscLoop(src, 1, << >>, n0, dst_size, signed)

----------------------------------------------------------------------------
(* The serializers.  stdout is a sequence of items [t, n, rec]; a path is  *)
(* shown by its suffix, the root prefix before it being the same in every  *)
(* record.                                                                 *)

NoRec ==
    [path |-> << >>, name |-> << >>, inode |-> 0, size |-> 0,
     mtime |-> << >>, mode |-> 0, is_dir |-> FALSE]

Item(t, n, rec) == [t |-> t, n |-> n, rec |-> rec]

\* one object of the files array
JsonObject(e, rl, signed) ==
    [path |-> json_escape(e.path, rl, ESC_PATH_SIZE, signed),
     name |-> json_escape(e.name, 0, ESC_NAME_SIZE, signed),
     inode |-> e.inode, size |-> e.size, mtime |-> timestamp_to_iso(e.mtime),
     mode |-> e.mode, is_dir |-> S_ISDIR(e.mode)]

output_json(list, count, now, rl, signed) ==
    <<Item("json_head", count, NoRec), Item("scan_time", now, NoRec)>>
    \o [i \in 1..Len(list) |-> Item("json_obj", 0, JsonObject(list[i], rl, signed))]
    \o <<Item("json_end", 0, NoRec)>>

\* one row
CsvRow(e) ==
    [path |-> e.path, name |-> e.name, inode |-> e.inode, size |-> e.size,
     mtime |-> timestamp_to_iso(e.mtime), mode |-> e.mode,
     is_dir |-> S_ISDIR(e.mode)]

output_csv(list) ==
    <<Item("csv_head", 0, NoRec)>>
    \o [i \in 1..Len(list) |-> Item("csv_row", 0, CsvRow(list[i]))]

print_usage == <<Item("usage", 0, NoRec)>>

----------------------------------------------------------------------------
(* The environment a run is given. *)

Opt(o, a) == [opt |-> o, arg |-> a]

\* what one getopt(argc, argv, "f:h") call can return: -f with its value,
\* -h, or '?' (an option not in "f:h", or -f without a value)
OptSet ==
    {Opt("f", "json"), Opt("f", "csv"), Opt("f", "xml"), Opt("h", ""), Opt("?", "")}

RECURSIVE SeqsUpTo(_, _)
SeqsUpTo(S, n) ==
    IF n = 0 THEN {<< >>}
    ELSE LET shorter == SeqsUpTo(S, n - 1) IN
         shorter \cup {Append(q, x) : q \in shorter, x \in S}

\* argv[optind..]: nothing, or a first word naming the tree's root
\* directory, a regular file, or nothing that exists
RestSet == {<< >>, <<"dir">>, <<"file">>, <<"missing">>}

SmallSubsets(S, k) == {T \in SUBSET S : Cardinality(T) <= k}

Scenarios(trees) ==
    {[nodes |-> t, noopen |-> a, nostat |-> b, order |-> o] :
        t \in trees, a \in SmallSubsets(0..3, MaxFail),
        b \in SmallSubsets(1..5, MaxFail), o \in {"fwd", "rev"}}

WellFormed(sc) ==
    /\ sc.noopen \subseteq DirIds(sc.nodes)
    /\ sc.nostat \subseteq Ids(sc.nodes)

\* the tree behind a path that is not the root directory is never looked at
NoTree == [nodes |-> TreeEmpty, noopen |-> {}, nostat |-> {}, order |-> "fwd"]

\* readdir's stream for directory d: the two orders the model draws from
Stream(sc, d) ==
    LET isChild(n) == sc.nodes[n].parent = d
        kids == SelectSeq([i \in 1..Len(sc.nodes) |-> i], isChild)
        names == [i \in 1..Len(kids) |-> sc.nodes[kids[i]].name]
    IN IF sc.order = "fwd" THEN <<DOT, DOTDOT>> \o names
       ELSE Reverse(names) \o <<DOTDOT, DOT>>

----------------------------------------------------------------------------
(* main, search_btrfs_metadata and crawl_filesystem. *)

Frame(path, caller) ==
    [path |-> path, phase |-> "open", todo |-> << >>, dir |-> -1, caller |-> caller]

InitWith(trees, rootLens) ==
    /\ opts \in SeqsUpTo(OptSet, MaxOpts)
    /\ rest \in RestSet
    /\ fs \in IF rest = <<"dir">>
              THEN {sc \in Scenarios(trees) : WellFormed(sc)}
              ELSE {NoTree}
    /\ rootLen \in rootLens
    /\ charSigned \in BOOLEAN
    /\ pc = "getopt"
    /\ format = "json"
    /\ file_list = << >>
    /\ file_count = 0
    /\ stack = << >>
    /\ out = << >>
    /\ err = << >>
    /\ exitCode = -1
    /\ allocFails = 0
    /\ disc = << >>

\* root paths short enough that every joined path fits full_path
Init == InitWith(Trees, 1..MaxRootLen)

\* root paths within MaxSlack bytes of what full_path holds
InitLong == InitWith({TreeTrunc, TreeDeep, TreeEmpty},
                     (PATH_SIZE - 1 - MaxSlack)..(PATH_SIZE - 1))

\* the switch on getopt's return value with '?' taken for success
GetoptCaseLenient(o, fmt) ==
    CASE o.opt = "f" ->
            IF o.arg # "json" /\ o.arg # "csv"
            THEN [format |-> o.arg, out |-> << >>, err |-> <<"invalid_format">>, exit |-> 1]
            ELSE [format |-> o.arg, out |-> << >>, err |-> << >>, exit |-> -1]
      [] o.opt = "h" -> [format |-> fmt, out |-> print_usage, err |-> << >>, exit |-> 0]
      [] OTHER -> [format |-> fmt, out |-> print_usage, err |-> << >>, exit |-> 0]

\* the switch on getopt's return value: what it sets, writes and returns
\* (exit -1: the loop goes on)
GetoptCase(o, fmt) ==
    CASE o.opt = "f" ->
            IF o.arg # "json" /\ o.arg # "csv"
            THEN [format |-> o.arg, out |-> << >>, err |-> <<"invalid_format">>, exit |-> 1]
            ELSE [format |-> o.arg, out |-> << >>, err |-> << >>, exit |-> -1]
      [] o.opt = "h" -> [format |-> fmt, out |-> print_usage, err |-> << >>, exit |-> 0]
      [] OTHER -> [format |-> fmt, out |-> print_usage, err |-> << >>, exit |-> 1]

\* one turn of the getopt loop
MainGetopt ==
    /\ pc = "getopt"
    /\ opts # << >>
    /\ LET r == GetoptCase(Head(opts), format) IN
       /\ opts' = Tail(opts)
       /\ format' = r.format
       /\ out' = out \o r.out
       /\ err' = err \o r.err
       /\ exitCode' = r.exit
       /\ pc' = IF r.exit = -1 THEN "getopt" ELSE "done"
    /\ UNCHANGED <<rest, fs, rootLen, charSigned, file_list, file_count,
                   stack, allocFails, disc>>

\* getopt returned -1: the path argument and its two checks
MainPath ==
    /\ pc = "getopt"
    /\ opts = << >>
    /\ LET r == IF rest = << >>
                THEN [out |-> print_usage, err |-> <<"missing_path">>, exit |-> 1]
                ELSE IF rest[1] = "missing"
                THEN [out |-> << >>, err |-> <<"cannot_access">>, exit |-> 1]
                ELSE IF rest[1] # "dir"
                THEN [out |-> << >>, err |-> <<"not_a_directory">>, exit |-> 1]
                ELSE [out |-> << >>, err |-> << >>, exit |-> -1]
       IN /\ out' = out \o r.out
          /\ err' = err \o r.err
          /\ exitCode' = r.exit
          /\ pc' = IF r.exit = -1 THEN "probe" ELSE "done"
    /\ UNCHANGED <<opts, rest, fs, rootLen, charSigned, format, file_list,
                   file_count, stack, allocFails, disc>>

\* main's test of search_btrfs_metadata's result, always taken
NeedFallbackAlways(r) == TRUE

\* main's test of search_btrfs_metadata's result
NeedFallback(r) == r # 0

\* search_btrfs_metadata up to its call of crawl_filesystem
MainProbe ==
    /\ pc = "probe"
    /\ \E r \in {"cannot_open", "not_btrfs", "native"} :
          IF r = "native"
          THEN /\ err' = Append(err, "warning_fallback")
               /\ stack' = <<Frame(<< >>, "search")>>
               /\ pc' = "crawl"
          ELSE /\ err' = Append(err, r)
               /\ stack' = stack
               /\ pc' = IF NeedFallback(-1) THEN "fallback" ELSE "finish"
    /\ UNCHANGED <<opts, rest, fs, rootLen, charSigned, format, file_list,
                   file_count, out, exitCode, allocFails, disc>>

\* main's own call of crawl_filesystem
MainFallback ==
    /\ pc = "fallback"
    /\ stack' = <<Frame(<< >>, "main")>>
    /\ pc' = "crawl"
    /\ UNCHANGED <<opts, rest, fs, rootLen, charSigned, format, file_list,
                   file_count, out, err, exitCode, allocFails, disc>>

\* the caller's loop after a recursive call that stops at a failure
AfterChildStopping(below, r) ==
    IF r # 0 THEN [below EXCEPT ![Len(below)].todo = << >>] ELSE below

\* the caller's loop after the recursive call returned r
AfterChild(below, r) == below

\* the innermost crawl_filesystem returns r
Return(r, errNow) ==
    LET caller == Top(stack).caller
        below == Pop(stack)
    IN IF below # << >>
       THEN /\ stack' = AfterChild(below, r)
            /\ err' = errNow
            /\ UNCHANGED <<pc, exitCode>>
       ELSE /\ stack' = << >>
            /\ IF caller = "search"
               THEN /\ pc' = IF NeedFallback(r) THEN "fallback" ELSE "finish"
                    /\ err' = errNow
                    /\ UNCHANGED exitCode
               ELSE IF r # 0
               THEN /\ pc' = "done"
                    /\ err' = Append(errNow, "failed_to_process")
                    /\ exitCode' = 1
               ELSE /\ pc' = "finish"
                    /\ err' = errNow
                    /\ UNCHANGED exitCode

\* opendir at the head of crawl_filesystem
CrawlOpen ==
    /\ pc = "crawl"
    /\ stack # << >>
    /\ Top(stack).phase = "open"
    /\ LET d == Opendir(fs.nodes, Top(stack).path) IN
       IF d = -1 \/ d \in fs.noopen
       THEN Return(-1, err)
       ELSE /\ stack' = [stack EXCEPT ![Len(stack)] =
                            [@ EXCEPT !.phase = "loop", !.dir = d,
                                      !.todo = Stream(fs, d)]]
            /\ err' = Append(err, "crawling")
            /\ UNCHANGED <<pc, exitCode>>
    /\ UNCHANGED <<opts, rest, fs, rootLen, charSigned, format, file_list,
                   file_count, out, allocFails, disc>>

\* the strcmp test on d_name
SkipEntry(name) == name = DOT \/ name = DOTDOT

\* the lstat call made as stat, which follows a final symbolic link
EntryStatFollowing(nodes, full) == Resolve(nodes, full, TRUE)

\* the lstat call on full_path
EntryStat(nodes, full) == Lstat(nodes, full)

\* one turn of the readdir loop
CrawlEntry ==
    /\ pc = "crawl"
    /\ stack # << >>
    /\ Top(stack).phase = "loop"
    /\ Top(stack).todo # << >>
    /\ LET top == Top(stack)
           name == Head(top.todo)
           next == [stack EXCEPT ![Len(stack)].todo = Tail(top.todo)]
           full == JoinPath(top.path, name, rootLen)
           n == EntryStat(fs.nodes, full)
       IN IF SkipEntry(name) \/ n = -1 \/ n \in fs.nostat
          THEN /\ stack' = next
               /\ UNCHANGED <<file_list, file_count, err, allocFails, disc>>
          ELSE \E ok \in BOOLEAN :
               LET st == StatOf(fs.nodes, n)
                   r == add_file_entry(file_list, file_count, ok, rootLen, full,
                                       name, st.st_ino, st.st_size, st.st_mtime,
                                       st.st_mode)
               IN /\ ok \/ allocFails < MaxAllocFail
                  /\ S_ISDIR(st.st_mode) => Len(stack) < MaxDepth
                  /\ file_list' = r.list
                  /\ file_count' = r.count
                  /\ allocFails' = IF ok THEN allocFails ELSE allocFails + 1
                  /\ err' = IF r.count % PROGRESS_EVERY = 0
                            THEN Append(err, "processed") ELSE err
                  /\ stack' = IF S_ISDIR(st.st_mode)
                              THEN Append(next, Frame(full, "crawl")) ELSE next
                  /\ disc' = Append(disc, [dir |-> top.dir, name |-> name,
                                           path |-> full, got |-> n, ok |-> ok])
    /\ UNCHANGED <<opts, rest, fs, rootLen, charSigned, format, pc, out, exitCode>>

\* readdir returned NULL: closedir, return 0
CrawlReturn ==
    /\ pc = "crawl"
    /\ stack # << >>
    /\ Top(stack).phase = "loop"
    /\ Top(stack).todo = << >>
    /\ Return(0, err)
    /\ UNCHANGED <<opts, rest, fs, rootLen, charSigned, format, file_list,
                   file_count, out, allocFails, disc>>

\* the values time(NULL) is drawn from
ScanTimes == {0, 1}

\* main after the gathering: the output, the cleanup, return 0
MainFinish ==
    /\ pc = "finish"
    /\ \E now \in ScanTimes :
          out' = out \o (IF format = "csv" THEN output_csv(file_list)
                         ELSE output_json(file_list, file_count, now, rootLen,
                                          charSigned))
    /\ err' = Append(err, "completed")
    /\ file_list' = << >>
    /\ pc' = "done"
    /\ exitCode' = 0
    /\ UNCHANGED <<opts, rest, fs, rootLen, charSigned, format, file_count,
                   stack, allocFails, disc>>

Next ==
    \/ MainGetopt
    \/ MainPath
    \/ MainProbe
    \/ MainFallback
    \/ CrawlOpen
    \/ CrawlEntry
    \/ CrawlReturn
    \/ MainFinish

Spec == Init /\ [][Next]_vars

SpecLong == InitLong /\ [][Next]_vars

----------------------------------------------------------------------------
(* What the claims speak of. *)

Range(s) == {s[i] : i \in 1..Len(s)}

Paths(list) == [i \in 1..Len(list) |-> list[i].path]

CountPath(list, p) == Cardinality({i \in 1..Len(list) : list[i].path = p})

\* p names something beneath the directory named q
Beneath(p, q) == IsPrefix(q \o SLASH, p)

AllAccessible == fs.noopen = {} /\ fs.nostat = {}

IsRecordItem(it) == it.t \in {"json_obj", "csv_row"}

Emitted == SelectSeq(out, IsRecordItem)

\* the entries whose records were allocated, in discovery order
Stored == LET isOk(d) == d.ok IN SelectSeq(disc, isOk)

\* node n and every directory above it below the root accept lstat, and
\* every directory above it below the root accepts opendir
RECURSIVE Reachable(_, _)
Reachable(sc, n) ==
    /\ n \notin sc.nostat
    /\ LET p == sc.nodes[n].parent IN
       p = 0 \/ (p \notin sc.noopen /\ Reachable(sc, p))

----------------------------------------------------------------------------
\* C1: when every directory opens and every entry can be stat'ed, the
\* gathering ends with one record per object beneath the root and no other
\* record, N + M in all, less only the records whose allocation failed; the
\* same whether the probe answered Native or Fallback; and main does not
\* then give up with "Failed to process filesystem".
C1_OneRecordPerObject ==
    AllAccessible =>
        /\ pc = "finish" =>
              /\ \A n \in Ids(fs.nodes) :
                    CountPath(file_list, PathOf(fs.nodes, n)) <= 1
              /\ \A i \in 1..Len(file_list) :
                    \E n \in Ids(fs.nodes) : file_list[i].path = PathOf(fs.nodes, n)
              /\ Len(file_list) + allocFails = Len(fs.nodes)
        /\ (pc = "done" /\ exitCode = 0 /\ out # print_usage) =>
              Len(Emitted) + allocFails = Len(fs.nodes)
        /\ "failed_to_process" \notin Range(err)

\* C1's case: a Native probe, the crawl of a tree of two directories and two
\* files done, no allocation failed, four records
C1_Witness ==
    /\ pc = "finish"
    /\ AllAccessible
    /\ fs.nodes = TreeDeep
    /\ "warning_fallback" \in Range(err)
    /\ allocFails = 0
    /\ Len(file_list) = 4

----------------------------------------------------------------------------
\* C2: while main runs, file_count is the number of nodes on file_list,
\* allocation failures included; and the total_files the structured output
\* shows is the number of objects in its files array.
C2_CountMatchesList ==
    /\ pc # "done" => file_count = Len(file_list)
    /\ (pc = "done" /\ out # << >> /\ out[1].t = "json_head") =>
          out[1].n = Len(Emitted)

\* C2's case: a structured output after a crawl in which an allocation failed
\* and at least two records were stored
C2_Witness ==
    /\ pc = "done"
    /\ allocFails > 0
    /\ out # << >>
    /\ out[1].t = "json_head"
    /\ out[1].n >= 2
    /\ Len(Emitted) >= 2

----------------------------------------------------------------------------
\* C3: when the root opens, the crawl of the root succeeds whatever fails
\* beneath it, and the store then holds one record for each object that can
\* be reached through directories that open (less the records whose
\* allocation failed) and none for the others: only what lies beneath an
\* unopenable directory is left out, its own record and its siblings' stay.
C3_OnlySubtreeOmitted ==
    /\ pc = "finish" =>
          /\ \A n \in Ids(fs.nodes) :
                CountPath(file_list, PathOf(fs.nodes, n)) <=
                    (IF Reachable(fs, n) THEN 1 ELSE 0)
          /\ Len(file_list) + allocFails =
                Cardinality({n \in Ids(fs.nodes) : Reachable(fs, n)})
    /\ "failed_to_process" \in Range(err) => 0 \in fs.noopen
    /\ (pc \in {"finish", "done"} /\ "crawling" \in Range(err)) =>
          "failed_to_process" \notin Range(err)

\* C3's case: x/ cannot be opened; x was met first, and still x and its
\* sibling g, met after the failure, are in the store, and y and f are not
C3_Witness ==
    /\ pc = "finish"
    /\ fs.nodes = TreeDeep
    /\ fs.noopen = {1}
    /\ fs.nostat = {}
    /\ fs.order = "fwd"
    /\ allocFails = 0
    /\ Paths(file_list) = <<PathOf(TreeDeep, 4), PathOf(TreeDeep, 1)>>

----------------------------------------------------------------------------
\* why the step that ends main returns 1: the cases the exit-code contract
\* lists and, with usageError, getopt's '?' as well
ExitCause(usageError) ==
    \/ /\ pc = "getopt" /\ opts # << >>
       /\ Head(opts).opt = "f" /\ Head(opts).arg \notin {"json", "csv"}
    \/ /\ usageError /\ pc = "getopt" /\ opts # << >>
       /\ Head(opts).opt = "?"
    \/ pc = "getopt" /\ opts = << >> /\ rest = << >>
    \/ pc = "getopt" /\ opts = << >> /\ rest = <<"missing">>
    \/ pc = "getopt" /\ opts = << >> /\ rest = <<"file">>
    \/ pc = "crawl" /\ 0 \in fs.noopen

\* the scenario of the empty root: total_files 0, no object, exit code 0
EmptyRootStep ==
    (pc = "finish" /\ fs.nodes = << >> /\ format = "json") =>
        exitCode' = 0 /\ out'[1].n = 0 /\ Emitted' = << >>

\* C4, as amended: the step that ends main returns 1 exactly when it is an
\* invalid -f value, a '?' from getopt (an unknown option, or -f without a
\* value), a missing path, a path that does not exist, a path that is not a
\* directory, or a root that cannot be listed, each as main meets it, and 0
\* otherwise (-h, an empty root).  When main finds the path to be a regular
\* file, stdout stays empty.
C4_ExitCodes ==
    [][(pc # "done" /\ pc' = "done") =>
          /\ exitCode' \in {0, 1}
          /\ exitCode' = 1 <=> ExitCause(TRUE)
          /\ (pc = "getopt" /\ opts = << >> /\ rest = <<"file">>) => out' = << >>
          /\ EmptyRootStep]_vars

\* C4 as the claim states it: the listed cases and no other return 1
C4_Original ==
    [][(pc # "done" /\ pc' = "done") =>
          /\ exitCode' \in {0, 1}
          /\ exitCode' = 1 <=> ExitCause(FALSE)
          /\ (pc = "getopt" /\ opts = << >> /\ rest = <<"file">>) => out' = << >>
          /\ EmptyRootStep]_vars

\* C4's case: main ended by getopt's '?': exit code 1, the usage text on
\* stdout, nothing on stderr
C4_Witness ==
    /\ pc = "done"
    /\ exitCode = 1
    /\ err = << >>
    /\ out = print_usage

----------------------------------------------------------------------------
\* C5: a run that ends on an invalid -f value or on a missing path returns 1,
\* has the usage text on stderr with the error message, and has written
\* nothing to stdout.
C5_InvocationErrors ==
    (pc = "done" /\ ("invalid_format" \in Range(err) \/ "missing_path" \in Range(err))) =>
        /\ exitCode = 1
        /\ out = << >>
        /\ "usage" \in Range(err)

----------------------------------------------------------------------------
\* the translation the escaper is documented to make, byte by byte
RECURSIVE Translate(_)
Translate(src) ==
    IF src = << >> THEN << >>
    ELSE LET b == Head(src) IN
         (CASE b = 34 -> <<92, 34>>
            [] b = 92 -> <<92, 92>>
            [] b = 10 -> <<92, 110>>
            [] b = 13 -> <<92, 114>>
            [] b = 9 -> <<92, 116>>
            [] OTHER -> IF b < 32 THEN << >> ELSE <<b>>)
         \o Translate(Tail(src))

\* C6: for every stored name and path, json_escape into the buffer
\* output_json gives it yields the byte-by-byte translation: the five
\* two-character sequences, other bytes below 32 dropped, every byte from 32
\* to 255 copied, nothing cut off.
C6_EscapeIsTranslation ==
    \A i \in 1..Len(file_list) :
        /\ json_escape(file_list[i].name, 0, ESC_NAME_SIZE, charSigned)
              = Translate(file_list[i].name)
        /\ json_escape(file_list[i].path, rootLen, ESC_PATH_SIZE, charSigned)
              = Translate(file_list[i].path)

----------------------------------------------------------------------------
\* the string a JSON reader takes from the escaped text
RECURSIVE JsonDecode(_)
JsonDecode(s) ==
    IF s = << >> THEN << >>
    ELSE IF Head(s) = 92 /\ Len(s) >= 2
    THEN LET x == s[2] IN
         <<(CASE x = 110 -> 10 [] x = 114 -> 13 [] x = 116 -> 9 [] OTHER -> x)>>
         \o JsonDecode(Tail(Tail(s)))
    ELSE <<Head(s)>> \o JsonDecode(Tail(s))

\* the field a CSV reader takes from the text after an opening quote: up to
\* the first quote that is not doubled
RECURSIVE CsvRead(_)
CsvRead(t) ==
    IF t = << >> THEN << >>
    ELSE IF Head(t) = 34
    THEN (IF Len(t) >= 2 /\ t[2] = 34
          THEN <<34>> \o CsvRead(Tail(Tail(t))) ELSE << >>)
    ELSE <<Head(t)>> \o CsvRead(Tail(t))

\* C7: for the same store, output_csv and output_json emit as many records,
\* in the same order, and each record's path, name, inode, size, mtime, mode
\* and is_dir read back the same from both.
C7_SameValues ==
    LET objs == SelectSeq(output_json(file_list, file_count, 0, rootLen, charSigned),
                          IsRecordItem)
        rows == SelectSeq(output_csv(file_list), IsRecordItem)
    IN /\ Len(objs) = Len(rows)
       /\ \A i \in 1..Len(objs) :
             /\ JsonDecode(objs[i].rec.path) = CsvRead(rows[i].rec.path \o <<34>>)
             /\ JsonDecode(objs[i].rec.name) = CsvRead(rows[i].rec.name \o <<34>>)
             /\ objs[i].rec.inode = rows[i].rec.inode
             /\ objs[i].rec.size = rows[i].rec.size
             /\ objs[i].rec.mtime = rows[i].rec.mtime
             /\ objs[i].rec.mode = rows[i].rec.mode
             /\ objs[i].rec.is_dir = rows[i].rec.is_dir

----------------------------------------------------------------------------
\* C8: discovery is pre-order depth-first (nothing is discovered before the
\* directory it lies beneath, and a directory's subtree is discovered in one
\* run right after it); the store, and both serializers after it, go through
\* the records in the reverse of discovery order; so no emitted record lies
\* beneath a record emitted before it.
C8_ReverseDiscovery ==
    /\ \A i, j \in 1..Len(disc) :
          Beneath(disc[j].path, disc[i].path) =>
              /\ i < j
              /\ \A k \in i..j : k # i => Beneath(disc[k].path, disc[i].path)
    /\ pc # "done" => Paths(file_list) = Reverse(Paths(Stored))
    /\ pc = "finish" =>
          LET objs == SelectSeq(output_json(file_list, file_count, 0, rootLen,
                                            charSigned), IsRecordItem)
              rows == SelectSeq(output_csv(file_list), IsRecordItem)
          IN /\ Len(objs) = Len(file_list) /\ Len(rows) = Len(file_list)
             /\ \A i \in 1..Len(file_list) :
                   /\ rows[i].rec.path = file_list[i].path
                   /\ objs[i].rec.inode = file_list[i].inode
                   /\ objs[i].rec.size = file_list[i].size
    /\ \A i, j \in 1..Len(Emitted) :
          i < j => ~Beneath(Emitted[j].rec.path, Emitted[i].rec.path)

\* C8's case: the flat output of the tree x/ (y/ (f)), g read in that order:
\* g, then f, then y, then x
C8_Witness ==
    /\ pc = "done"
    /\ fs.nodes = TreeDeep
    /\ format = "csv"
    /\ Len(Emitted) = 4
    /\ [i \in 1..4 |-> Emitted[i].rec.path] =
          <<PathOf(TreeDeep, 4), PathOf(TreeDeep, 3), PathOf(TreeDeep, 2),
            PathOf(TreeDeep, 1)>>

----------------------------------------------------------------------------
\* C9: every record carries the name, inode, size, mtime and mode of the
\* entry it was made for, a link's own when the entry is a link, so its
\* is_dir is true only for a real directory; crawl_filesystem is active only
\* in real directories, and after the walk every entry of a recorded,
\* openable directory that can be stat'ed was visited; a link yields at
\* most one record (exactly one when reached and allocated), never a
\* directory record, and nothing is recorded beneath its path.
C9_LinkMetadata ==
    /\ \A i \in 1..Len(file_list) :
          \E n \in Ids(fs.nodes) :
              /\ file_list[i].path = PathOf(fs.nodes, n)
              /\ file_list[i].name = fs.nodes[n].name
              /\ file_list[i].inode = fs.nodes[n].ino
              /\ file_list[i].size = fs.nodes[n].size
              /\ file_list[i].mtime = fs.nodes[n].mtime
              /\ file_list[i].mode = ModeOf(fs.nodes, n)
              /\ S_ISDIR(file_list[i].mode) <=> fs.nodes[n].kind = "dir"
    /\ \A k \in 2..Len(stack) :
          \E n \in Ids(fs.nodes) :
              /\ stack[k].path = PathOf(fs.nodes, n)
              /\ fs.nodes[n].kind = "dir"
              /\ stack[k - 1].dir = fs.nodes[n].parent
    /\ (pc = "finish" /\ allocFails = 0) =>
          \A i \in 1..Len(file_list) : \A c \in Ids(fs.nodes) :
              (/\ S_ISDIR(file_list[i].mode)
               /\ file_list[i].path = PathOf(fs.nodes, fs.nodes[c].parent)
               /\ fs.nodes[c].parent \notin fs.noopen
               /\ c \notin fs.nostat)
              => CountPath(file_list, PathOf(fs.nodes, c)) = 1
    /\ \A l \in Ids(fs.nodes) :
          fs.nodes[l].kind = "lnk" =>
              /\ CountPath(file_list, PathOf(fs.nodes, l)) <= 1
              /\ \A i \in 1..Len(file_list) :
                    ~Beneath(file_list[i].path, PathOf(fs.nodes, l))
              /\ (pc = "finish" /\ allocFails = 0 /\ Reachable(fs, l)) =>
                    CountPath(file_list, PathOf(fs.nodes, l)) = 1

\* C9's case: the walk of the tree with the link l -> d and the link
\* d/up -> root is over, five records, the one for l no directory
C9_Witness ==
    /\ pc = "finish"
    /\ fs.nodes = TreeLinks
    /\ AllAccessible
    /\ allocFails = 0
    /\ Len(file_list) = 5
    /\ \E i \in 1..5 :
          /\ file_list[i].path = PathOf(TreeLinks, 3)
          /\ ~S_ISDIR(file_list[i].mode)
          /\ file_list[i].size = 1

----------------------------------------------------------------------------
\* the depth of the deepest object of the tree
MaxTreeDepth(nodes) ==
    IF nodes = << >> THEN 0
    ELSE CHOOSE m \in 0..Len(nodes) :
            /\ \A n \in Ids(nodes) : DepthOf(nodes, n) <= m
            /\ \E n \in Ids(nodes) : DepthOf(nodes, n) = m

\* C10: every recursive call of crawl_filesystem is made on a path that
\* names something strictly deeper in the tree than its caller's path, so
\* there are never more activations than the tree is deep (and one for the
\* root).
C10_BoundedRecursion ==
    /\ Len(stack) <= 1 + MaxTreeDepth(fs.nodes)
    /\ \A k \in 2..Len(stack) :
          LET a == Resolve(fs.nodes, stack[k - 1].path, TRUE)
              b == Resolve(fs.nodes, stack[k].path, TRUE)
          IN a # -1 /\ b # -1 /\ DepthOf(fs.nodes, b) > DepthOf(fs.nodes, a)

====
